---- MODULE Spec2Model ----
(***************************************************************************)
(* Quotation Vault (OS Overseas): the per-file extraction-and-ingestion    *)
(* pipeline of App.tsx (src/unnamed/part_000): extractText, withTimeout,   *)
(* handleFilesChange, handleUpload and fetchQuotations, together with the  *)
(* external services they await (Tesseract, mammoth, Firebase storage and  *)
(* Firestore).  One action is one macrotask of the browser's event loop:   *)
(* a user event, or the settling of one awaited external call followed by  *)
(* everything handleUpload does up to its next awaited external call.      *)
(***************************************************************************)
EXTENDS Integers, Sequences, FiniteSets, TLC

\* ------------------------------------------------------------------ bounds

\* Files the user may put through the pipeline in the whole session (all runs).
MaxFiles == 2

\* Largest batch of the progress scenario (ProgressSpec).
MaxBatch == 40

\* ------------------------------------------------------- program constants

\* extractedText?.slice(0,600)
SummaryLen == 600

\* IEEE-754 binary64 significand width: the Number type of the progress value.
Precision == 53

\* Limb width of the long arithmetic below, and the limbs of a quotient's expansion.
LimbBits == 11

LimbBase == 2048

DivLimbCount == 6

DocxType == "application/vnd.openxmlformats-officedocument.wordprocessingml.document"

PdfPlaceholder == "[PDF text extraction coming soon]"

UnsupportedPlaceholder == "[Unsupported file type]"

TimeoutMessage == "Extraction timed out"

\* useState<string|null>(null): the null of the error slot.
Null == "<null>"

\* --------------------------------------------------------------- JS helpers

Min(a, b) == IF a < b THEN a ELSE b

\* a || b on strings: the empty string (and an absent message) is falsy.
Or(a, b) == IF a = "" THEN b ELSE a

\* String.prototype.startsWith
StartsWith(s, p) == Len(s) >= Len(p) /\ SubSeq(s, 1, Len(p)) = p

\* String.prototype.slice(from, to) for 0 <= from <= to.
Slice(s, from, to) == SubSeq(s, from + 1, Min(to, Len(s)))

RECURSIVE Repeat(_, _)
Repeat(s, n) == IF n = 0 THEN "" ELSE Repeat(s, n - 1) \o s

\* ------------------------------------------------- binary64 arithmetic
\* The progress value is a JavaScript Number.  A positive double is
\* [bits |-> <<b1..b53>>, exp |-> e] with b1 = 1 and value 1.b2...b53 * 2^e.
\* Bit strings are most-significant first; long numbers are handled in limbs of
\* LimbBits bits so that every intermediate value stays below 2^31.

\* The first k limbs of the binary expansion of r/n (0 <= r < n), then the remainder.
RECURSIVE DivLimbs(_, _, _)
DivLimbs(r, n, k) ==
    IF k = 0 THEN [limbs |-> <<>>, rem |-> r]
    ELSE LET t    == r * LimbBase
             rest == DivLimbs(t % n, n, k - 1)
         IN  [limbs |-> <<t \div n>> \o rest.limbs, rem |-> rest.rem]

\* limbs * c, least-significant limb last; the carry out becomes the top limb.
RECURSIVE MulLimbs(_, _, _)
MulLimbs(limbs, c, carry) ==
    IF limbs = <<>> THEN <<carry>>
    ELSE LET n == Len(limbs)
             v == limbs[n] * c + carry
         IN  MulLimbs(SubSeq(limbs, 1, n - 1), c, v \div LimbBase) \o <<v % LimbBase>>

ToBits(limbs) ==
    [k \in 1..(LimbBits * Len(limbs)) |->
        (limbs[((k - 1) \div LimbBits) + 1]
            \div (2 ^ (LimbBits - 1 - ((k - 1) % LimbBits)))) % 2]

RECURSIVE BitsValue(_)
BitsValue(bits) ==
    IF bits = <<>> THEN 0
    ELSE 2 * BitsValue(SubSeq(bits, 1, Len(bits) - 1)) + bits[Len(bits)]

\* A bit string whose length is a multiple of LimbBits, as limbs.
ToLimbs(bits) ==
    [j \in 1..(Len(bits) \div LimbBits) |->
        BitsValue(SubSeq(bits, LimbBits * (j - 1) + 1, LimbBits * j))]

AnyOne(bits) == \E k \in 1..Len(bits) : bits[k] = 1

LeadingZeros(bits) ==
    IF ~AnyOne(bits) THEN Len(bits)
    ELSE (CHOOSE k \in 1..Len(bits) :
            bits[k] = 1 /\ \A j \in 1..(k - 1) : bits[j] = 0) - 1

\* bits + 1, one bit longer when the carry runs out of the top.
Increment(bits) ==
    IF \A k \in 1..Len(bits) : bits[k] = 1
    THEN <<1>> \o [k \in 1..Len(bits) |-> 0]
    ELSE LET p == CHOOSE k \in 1..Len(bits) :
                    bits[k] = 0 /\ \A j \in (k + 1)..Len(bits) : bits[j] = 1
         IN  [k \in 1..Len(bits) |-> IF k < p THEN bits[k] ELSE IF k = p THEN 1 ELSE 0]

\* Round-to-nearest, ties-to-even, of the bit string `bits` (leading 1, at least
\* Precision + 1 long) with `sticky` standing for non-zero digits beyond it;
\* `exp` is the exponent of the leading bit.
RoundToDouble(bits, sticky, exp) ==
    LET kept  == SubSeq(bits, 1, Precision)
        guard == bits[Precision + 1]
        rest  == sticky \/ AnyOne(SubSeq(bits, Precision + 2, Len(bits)))
        up    == guard = 1 /\ (rest \/ kept[Precision] = 1)
        inc   == Increment(kept)
    IN  IF ~up THEN [bits |-> kept, exp |-> exp]
        ELSE IF Len(inc) > Precision
             THEN [bits |-> SubSeq(inc, 1, Precision), exp |-> exp + 1]
             ELSE [bits |-> inc, exp |-> exp]

\* a / n in binary64, for integers 1 <= a <= n < 2^12.
FloatDiv(a, n) ==
    IF a = n THEN [bits |-> <<1>> \o [k \in 1..(Precision - 1) |-> 0], exp |-> 0]
    ELSE LET ds   == DivLimbs(a, n, DivLimbCount)
             bits == ToBits(ds.limbs)
             z    == LeadingZeros(bits)
         IN  RoundToDouble(SubSeq(bits, z + 1, Len(bits)), ds.rem # 0, -(z + 1))

\* x * c in binary64, for an integer 2 <= c < 2^11.
FloatMul(x, c) ==
    LET pad  == (LimbBits - (Precision % LimbBits)) % LimbBits
        m    == [k \in 1..pad |-> 0] \o x.bits
        p    == ToBits(MulLimbs(ToLimbs(m), c, 0))
        z    == LeadingZeros(p)
        sig  == SubSeq(p, z + 1, Len(p))
    IN  RoundToDouble(sig \o <<0>>, FALSE, x.exp + (Len(sig) - Precision))

\* Math.round of a positive double below 2^31: floor(x + 1/2).
MathRound(x) ==
    IF x.exp < -1 THEN 0
    ELSE BitsValue(SubSeq(x.bits, 1, x.exp + 1)) + x.bits[x.exp + 2]

\* ------------------------------------------------------------------ inputs

\* The File objects the user can select: one per branch of extractText.
Files ==
    { [name |-> "scan.png",  type |-> "image/png"],
      [name |-> "doc.pdf",   type |-> "application/pdf"],
      [name |-> "huge.docx", type |-> DocxType],
      [name |-> "a.txt",     type |-> "text/plain"],
      [name |-> "data.zip",  type |-> "application/zip"] }

\* A text longer than the summary, and one of exactly the summary's length.
FullText == Repeat("0123456789", SummaryLen \div 10)

LongText == FullText \o "overflow"

\* What Tesseract may recognize (result.data.text), what mammoth may convert a
\* document to (result.value), and what File.text() may read.
OcrTexts == {"", "Invoice #1"}

DocxValues == {"", FullText}

FileTexts == {"Invoice #1", LongText}

\* err.message of a rejected external call; "" is a rejection without a message.
Messages == {"", "permission-denied"}

\* The FileLists of at most k files.
Selections(k) == UNION {[1..n -> Files] : n \in 0..k}

\* The places where handleUpload is suspended on an external call.
ExtractCalls == {"recognize", "arrayBuffer", "extractRawText", "text"}

UploadCalls == {"uploadBytes", "getDownloadURL", "addDoc"}

\* ------------------------------------------------------------------- state

VARIABLES
    \* React state of App (lines 51-57)
    files, processing, progress, step, quotations, error,
    \* handleUpload's closure and locals, and the call it is suspended on
    batch, i, extractedText, errorMsg, storageRef, record, pc,
    \* the environment: the Firestore collection, the clock, the getDocs calls in
    \* flight (by caller), and the works a timeout has abandoned
    db, now, fetching, abandoned,
    \* history: runs started, files handed to runs, the setStep calls of the
    \* current run, what the external calls did for each file, the latest failure
    \* of the current run, and whether a handleUpload call's promise was rejected
    runs, attempted, steps, hist, lastFailure, rejected

vars == << files, processing, progress, step, quotations, error,
           batch, i, extractedText, errorMsg, storageRef, record, pc,
           db, now, fetching, abandoned,
           runs, attempted, steps, hist, lastFailure, rejected >>

\* The state as one record, for the functions that model the code.
S == [ files |-> files, processing |-> processing, progress |-> progress,
       step |-> step, quotations |-> quotations, error |-> error,
       batch |-> batch, i |-> i, extractedText |-> extractedText,
       errorMsg |-> errorMsg, storageRef |-> storageRef, record |-> record,
       pc |-> pc, db |-> db, now |-> now, fetching |-> fetching,
       abandoned |-> abandoned, runs |-> runs, attempted |-> attempted,
       steps |-> steps, hist |-> hist, lastFailure |-> lastFailure,
       rejected |-> rejected ]

Commit(t) ==
    /\ files' = t.files /\ processing' = t.processing /\ progress' = t.progress
    /\ step' = t.step /\ quotations' = t.quotations /\ error' = t.error
    /\ batch' = t.batch /\ i' = t.i /\ extractedText' = t.extractedText
    /\ errorMsg' = t.errorMsg /\ storageRef' = t.storageRef /\ record' = t.record
    /\ pc' = t.pc /\ db' = t.db /\ now' = t.now /\ fetching' = t.fetching
    /\ abandoned' = t.abandoned /\ runs' = t.runs /\ attempted' = t.attempted
    /\ steps' = t.steps /\ hist' = t.hist /\ lastFailure' = t.lastFailure
    /\ rejected' = t.rejected

NoRecord == [none |-> TRUE]

NoFailure == [kind |-> "none", name |-> "", message |-> ""]

Init ==
    /\ files = <<>> /\ processing = FALSE /\ progress = 0 /\ step = ""
    /\ quotations = <<>> /\ error = Null
    /\ batch = <<>> /\ i = 0 /\ extractedText = "" /\ errorMsg = ""
    /\ storageRef = "" /\ record = NoRecord /\ pc = "idle"
    /\ db = <<>> /\ now = 0
    /\ fetching = [mount |-> 1, run |-> 0]   \* useEffect(fetchQuotations, [])
    /\ abandoned = 0
    /\ runs = 0 /\ attempted = 0 /\ steps = <<>> /\ hist = <<>>
    /\ lastFailure = NoFailure /\ rejected = FALSE

\* ------------------------------------------------------ Date and strings

Digit(d) == SubSeq("0123456789", d + 1, d + 1)

RECURSIVE Decimal(_)
Decimal(n) == IF n < 10 THEN Digit(n) ELSE Decimal(n \div 10) \o Digit(n % 10)

\* Date.prototype.toISOString of the clock reading t (seconds of the first minute).
ToISOString(t) == "1970-01-01T00:00:" \o Digit((t \div 10) % 10) \o Digit(t % 10) \o ".000Z"

\* Collation rank of the characters of a timestamp.
Rank(c) == CHOOSE k \in 1..15 : SubSeq("-.:0123456789TZ", k, k) = c

\* String.prototype.localeCompare on timestamps: -1, 0 or 1.
RECURSIVE LocaleCompare(_, _)
LocaleCompare(a, b) ==
    IF a = b THEN 0
    ELSE IF a = "" THEN -1
    ELSE IF b = "" THEN 1
    ELSE LET x == SubSeq(a, 1, 1)
             y == SubSeq(b, 1, 1)
         IN  IF x = y THEN LocaleCompare(SubSeq(a, 2, Len(a)), SubSeq(b, 2, Len(b)))
             ELSE IF Rank(x) > Rank(y) THEN 1 ELSE -1

\* Array.prototype.sort((a, b) => b.uploaded.localeCompare(a.uploaded)): stable.
RECURSIVE SortByUploaded(_)
SortByUploaded(docs) ==
    IF docs = <<>> THEN <<>>
    ELSE LET n      == Len(docs)
             x      == docs[n]
             sorted == SortByUploaded(SubSeq(docs, 1, n - 1))
             \* x goes after every element that does not sort after it
             keep   == {k \in 1..Len(sorted) :
                          LocaleCompare(x.uploaded, sorted[k].uploaded) <= 0}
             at     == IF keep = {} THEN 0
                       ELSE CHOOSE k \in keep : \A j \in keep : j <= k
         IN  SubSeq(sorted, 1, at) \o <<x>> \o SubSeq(sorted, at + 1, Len(sorted))

\* ------------------------------------------------------------ the code
\* Functions from state to state, one per stretch of code between two awaits.

\* The file of the current iteration: files[i].
File(s) == s.batch[s.i + 1]

\* Math.round(((i + 1) / files.length) * 100) for k = i and n = files.length,
\* tabulated once for the batch lengths of the model.
ProgressTable ==
    [n \in 1..(IF MaxFiles > MaxBatch THEN MaxFiles ELSE MaxBatch) |->
        [a \in 1..n |-> MathRound(FloatMul(FloatDiv(a, n), 100))]]

Progress(k, n) == ProgressTable[n][k + 1]

\* setStep of the upload step, the storage reference, and the call of uploadBytes.
EnterUpload(s) ==
    [s EXCEPT !.step = "Uploading: " \o File(s).name,
              !.steps = Append(@, <<"Uploading", s.i>>),
              !.storageRef = "quotations/" \o File(s).name \o "_" \o Decimal(s.now),
              !.pc = "uploadBytes"]

\* extractedText = await extractText(file), fulfilled.
ExtractResolved(s, text) == EnterUpload([s EXCEPT !.extractedText = text])

\* The catch of the extraction step without the fallback reason: a rejection
\* that carries no message leaves errorMsg empty.
ExtractRejectedNoFallback(s, message) ==
    EnterUpload([s EXCEPT !.errorMsg = message,
                          !.error = "Extraction failed: " \o File(s).name
                                        \o ": " \o message])

\* The catch of the extraction step.
ExtractRejected(s, message) ==
    LET msg == Or(message, "Extraction failed")
    IN  EnterUpload([s EXCEPT !.errorMsg = msg,
                              !.error = "Extraction failed: " \o File(s).name
                                            \o ": " \o msg])

\* extractText, to its first await or to its return.
ExtractText(s) ==
    LET type == File(s).type
    IN  IF StartsWith(type, "image/") THEN [s EXCEPT !.pc = "recognize"]
        ELSE IF type = "application/pdf" THEN ExtractResolved(s, PdfPlaceholder)
        ELSE IF type = DocxType THEN [s EXCEPT !.pc = "arrayBuffer"]
        ELSE IF StartsWith(type, "text/") THEN [s EXCEPT !.pc = "text"]
        ELSE ExtractResolved(s, UnsupportedPlaceholder)

\* return result.data.text || ''
RecognizeResolved(s, text) == ExtractResolved(s, Or(text, ""))

\* const arrayBuffer = await ...; then the call of mammoth.extractRawText.
ArrayBufferResolved(s) == [s EXCEPT !.pc = "extractRawText"]

\* return result.value || ''
ExtractRawTextResolved(s, value) == ExtractResolved(s, Or(value, ""))

\* return txt
TextResolved(s, txt) == ExtractResolved(s, txt)

\* The raced calls if the byte read of a Word file were awaited bare.
RacedButByteRead == {"recognize", "extractRawText", "text"}

\* withTimeout: the calls that are raced against the timer.
Raced == {"recognize", "arrayBuffer", "extractRawText", "text"}

\* The timer of withTimeout fires before the work settles: the race rejects.
TimerFired(s) == ExtractRejected(s, TimeoutMessage)

\* The late settling of an abandoned work if its result were still delivered to
\* the run: it replaces the text of the file then being handled and withdraws
\* the notice.
LateSettledDelivered(s) == [s EXCEPT !.extractedText = "late", !.error = Null]

\* The work settles after the race was decided: Promise.race ignores it.
LateSettled(s) == s

\* The head of an iteration of the loop, to the call of extractText.
BeginFile(s) ==
    ExtractText([s EXCEPT !.extractedText = "", !.errorMsg = "",
                          !.storageRef = "", !.record = NoRecord,
                          !.step = "Extracting text: " \o File(s).name,
                          !.steps = Append(@, <<"Extracting", s.i>>)])

\* The end of the loop without setFiles([]): the selection stays.
EndLoopKeepsFiles(s) ==
    [s EXCEPT !.processing = FALSE, !.step = "",
              !.extractedText = "", !.errorMsg = "", !.storageRef = "",
              !.record = NoRecord, !.pc = "idle",
              !.fetching = [@ EXCEPT !.run = @ + 1]]

\* After the loop: setProcessing(false), setFiles([]), setStep(''), and the call
\* of fetchQuotations, which awaits getDocs.
EndLoop(s) ==
    [s EXCEPT !.processing = FALSE, !.files = <<>>, !.step = "",
              !.extractedText = "", !.errorMsg = "", !.storageRef = "",
              !.record = NoRecord, !.pc = "idle",
              !.fetching = [@ EXCEPT !.run = @ + 1]]

\* setProgress at the end of an iteration, i++, and the loop test.
FinishFile(s) ==
    LET n == Len(s.batch)
        t == [s EXCEPT !.progress = Progress(s.i, n), !.i = s.i + 1]
    IN  IF t.i < n THEN BeginFile(t) ELSE EndLoop(t)

\* await uploadBytes fulfilled, then the call of getDownloadURL.
UploadBytesResolved(s) == [s EXCEPT !.pc = "getDownloadURL"]

\* The record literal with the whole extracted text.
QuotationDocUnsliced(s, url) ==
    LET base == [fileUrl |-> url, filename |-> File(s).name, type |-> File(s).type,
                 uploaded |-> ToISOString(s.now),
                 extractedText |-> s.extractedText]
    IN  IF s.errorMsg # "" THEN ("error" :> s.errorMsg) @@ base ELSE base

\* The record literal.
QuotationDoc(s, url) ==
    LET base == [fileUrl |-> url, filename |-> File(s).name, type |-> File(s).type,
                 uploaded |-> ToISOString(s.now),
                 extractedText |-> Slice(s.extractedText, 0, SummaryLen)]
    IN  IF s.errorMsg # "" THEN ("error" :> s.errorMsg) @@ base ELSE base

\* const url = await getDownloadURL fulfilled, the record, the call of addDoc.
GetDownloadURLResolved(s, url) ==
    [s EXCEPT !.record = QuotationDoc(s, url), !.pc = "addDoc"]

\* The catch of the upload step if a failed URL resolution were tolerated: the
\* record is made without a URL and inserted.
UploadFailedUrlTolerated(s, message) ==
    IF s.pc = "getDownloadURL" THEN GetDownloadURLResolved(s, "")
    ELSE FinishFile([s EXCEPT !.error = "Upload failed: " \o File(s).name \o ": "
                                           \o Or(message, "Upload failed")])

\* The catch of the upload step if it ended the loop (a try around the loop
\* instead of inside it).
UploadFailedAborts(s, message) ==
    EndLoop([s EXCEPT !.error = "Upload failed: " \o File(s).name \o ": "
                                   \o Or(message, "Upload failed")])

\* The catch of the upload step if it kept a notice already shown.
UploadFailedKeepsFirst(s, message) ==
    FinishFile([s EXCEPT !.error =
        IF @ # Null THEN @
        ELSE "Upload failed: " \o File(s).name \o ": " \o Or(message, "Upload failed")])

\* The catch of the upload step.
UploadFailed(s, message) ==
    FinishFile([s EXCEPT !.error = "Upload failed: " \o File(s).name \o ": "
                                      \o Or(message, "Upload failed")])

\* await addDoc fulfilled: the try block ends.
AddDocResolved(s) == FinishFile(s)

\* handleUpload from the click to its first await.
HandleUploadStart(s) ==
    BeginFile([s EXCEPT !.processing = TRUE, !.progress = 0, !.error = Null,
                        !.batch = s.files, !.i = 0, !.steps = <<>>])

\* fetchQuotations after getDocs: map the snapshot, sort, setQuotations.
FetchQuotationsResolved(s, snapshot) ==
    [s EXCEPT !.quotations =
        SortByUploaded([k \in 1..Len(snapshot) |->
                          snapshot[k].data @@ ("id" :> snapshot[k].id)])]

\* ------------------------------------------------------- the environment

\* The download URL the storage service gives for a reference.
DownloadURL(ref) == "https://firebasestorage/" \o ref

\* Firestore stores a document under a new id.
Stored(s) == [s EXCEPT !.db = Append(@, [id |-> Len(@) + 1, data |-> s.record])]

\* The clock has advanced when a later task reads it.
Tick(s) == [s EXCEPT !.now = @ + 1]

\* The history entry of the current file (made on its first external event).
FreshEntry(s) ==
    [run |-> s.runs, idx |-> s.i, file |-> File(s), ext |-> "none", text |-> "",
     reason |-> "", timedOut |-> "", put |-> "pending", url |-> "pending",
     ins |-> "pending", rec |-> 0]

\* The history entry of the current file with the fields of `updates` replaced.
Note(s, updates) ==
    LET n == Len(s.hist)
        h == IF n > 0 /\ s.hist[n].run = s.runs /\ s.hist[n].idx = s.i
             THEN s.hist ELSE Append(s.hist, FreshEntry(s))
    IN  [s EXCEPT !.hist = [h EXCEPT ![Len(h)] = updates @@ @]]

NoteFailure(s, kind, message) ==
    [s EXCEPT !.lastFailure = [kind |-> kind, name |-> File(s).name,
                               message |-> message]]

ExtractionFailure(s, message) ==
    NoteFailure(Note(s, [ext |-> "failed", reason |-> message]),
                "Extraction", message)

ExtractionSuccess(s, text) == Note(s, [ext |-> "ok", text |-> text])

UploadFailure(s, call, message) ==
    NoteFailure(Note(s, call :> "failed"), "Upload", message)

\* ----------------------------------------------------------------- actions
\* Each action takes the state with the history of the event noted (h), applies
\* the code that the event resumes, and commits the result (t).

\* The user picks files in the input element (it is never disabled).
HandleFilesChange(selection) ==
    /\ attempted + Len(selection) <= MaxFiles
    /\ \E t \in {[S EXCEPT !.files = selection]} : Commit(t)

\* The user clicks "Upload now": rendered when files.length > 0, disabled while
\* processing.
HandleUpload ==
    /\ files # <<>>
    /\ ~processing
    /\ \E h \in {[S EXCEPT !.runs = @ + 1, !.attempted = @ + Len(files),
                           !.lastFailure = NoFailure]} :
       \E t \in {HandleUploadStart(h)} : Commit(t)

RecognizeResolve(text) ==
    /\ pc = "recognize"
    /\ \E h \in {ExtractionSuccess(S, text)} :
       \E t \in {RecognizeResolved(h, text)} : Commit(t)

RecognizeReject(message) ==
    /\ pc = "recognize"
    /\ \E h \in {ExtractionFailure(S, message)} :
       \E t \in {ExtractRejected(h, message)} : Commit(t)

ArrayBufferResolve ==
    /\ pc = "arrayBuffer"
    /\ \E t \in {ArrayBufferResolved(S)} : Commit(t)

ArrayBufferReject(message) ==
    /\ pc = "arrayBuffer"
    /\ \E h \in {ExtractionFailure(S, message)} :
       \E t \in {ExtractRejected(h, message)} : Commit(t)

ExtractRawTextResolve(value) ==
    /\ pc = "extractRawText"
    /\ \E h \in {ExtractionSuccess(S, value)} :
       \E t \in {ExtractRawTextResolved(h, value)} : Commit(t)

ExtractRawTextReject(message) ==
    /\ pc = "extractRawText"
    /\ \E h \in {ExtractionFailure(S, message)} :
       \E t \in {ExtractRejected(h, message)} : Commit(t)

TextResolve(txt) ==
    /\ pc = "text"
    /\ \E h \in {ExtractionSuccess(S, txt)} :
       \E t \in {TextResolved(h, txt)} : Commit(t)

TextReject(message) ==
    /\ pc = "text"
    /\ \E h \in {ExtractionFailure(S, message)} :
       \E t \in {ExtractRejected(h, message)} : Commit(t)

\* The 10 s timer of withTimeout fires while the raced work is still pending; the
\* work goes on, abandoned.
Timeout ==
    /\ pc \in Raced
    /\ \E a \in {[S EXCEPT !.abandoned = @ + 1]} :
       \E n \in {Note(a, [ext |-> "failed", timedOut |-> pc])} :
       \E h \in {NoteFailure(n, "Extraction", TimeoutMessage)} :
       \E t \in {TimerFired(h)} : Commit(t)

\* An abandoned work settles, fulfilled or rejected.
LateSettle ==
    /\ abandoned > 0
    /\ \E h \in {[S EXCEPT !.abandoned = @ - 1]} :
       \E t \in {LateSettled(h)} : Commit(t)

UploadBytesResolve ==
    /\ pc = "uploadBytes"
    /\ \E h \in {Note(S, [put |-> "ok"])} :
       \E t \in {UploadBytesResolved(h)} : Commit(t)

UploadBytesReject(message) ==
    /\ pc = "uploadBytes"
    /\ \E h \in {UploadFailure(S, "put", message)} :
       \E t \in {UploadFailed(h, message)} : Commit(t)

GetDownloadURLResolve ==
    /\ pc = "getDownloadURL"
    /\ \E h \in {Tick(Note(S, [url |-> "ok"]))} :
       \E t \in {GetDownloadURLResolved(h, DownloadURL(storageRef))} : Commit(t)

GetDownloadURLReject(message) ==
    /\ pc = "getDownloadURL"
    /\ \E h \in {UploadFailure(S, "url", message)} :
       \E t \in {UploadFailed(h, message)} : Commit(t)

AddDocResolve ==
    /\ pc = "addDoc"
    /\ \E h \in {Stored(Note(S, [ins |-> "ok", rec |-> Len(db) + 1]))} :
       \E t \in {AddDocResolved(h)} : Commit(t)

AddDocReject(message) ==
    /\ pc = "addDoc"
    /\ \E h \in {UploadFailure(S, "ins", message)} :
       \E t \in {UploadFailed(h, message)} : Commit(t)

\* getDocs of a fetchQuotations call (of the mount effect or of a run) fulfils.
GetDocsResolve(caller) ==
    /\ fetching[caller] > 0
    /\ \E h \in {[S EXCEPT !.fetching = [@ EXCEPT ![caller] = @ - 1]]} :
       \E t \in {FetchQuotationsResolved(h, db)} : Commit(t)

\* getDocs rejects: fetchQuotations has no catch, nor has its caller.
GetDocsReject(caller) ==
    /\ fetching[caller] > 0
    /\ \E t \in {[S EXCEPT !.fetching = [@ EXCEPT ![caller] = @ - 1],
                           !.rejected = @ \/ caller = "run"]} : Commit(t)

Next ==
    \/ \E selection \in Selections(MaxFiles) : HandleFilesChange(selection)
    \/ HandleUpload
    \/ \E text \in OcrTexts : RecognizeResolve(text)
    \/ \E message \in Messages : RecognizeReject(message)
    \/ ArrayBufferResolve
    \/ \E message \in Messages : ArrayBufferReject(message)
    \/ \E value \in DocxValues : ExtractRawTextResolve(value)
    \/ \E message \in Messages : ExtractRawTextReject(message)
    \/ \E txt \in FileTexts : TextResolve(txt)
    \/ \E message \in Messages : TextReject(message)
    \/ Timeout
    \/ LateSettle
    \/ UploadBytesResolve
    \/ \E message \in Messages : UploadBytesReject(message)
    \/ GetDownloadURLResolve
    \/ \E message \in Messages : GetDownloadURLReject(message)
    \/ AddDocResolve
    \/ \E message \in Messages : AddDocReject(message)
    \/ \E caller \in {"mount", "run"} : GetDocsResolve(caller)
    \/ \E caller \in {"mount", "run"} : GetDocsReject(caller)

Spec == Init /\ [][Next]_vars

\* The event loop runs a timer's callback once its delay has passed.
FairSpec == Spec /\ WF_vars(Timeout)

\* The progress scenario: a batch of 1..MaxBatch PDF files is selected, the user
\* clicks, and the storage service refuses every file.
ProgressInit ==
    /\ files \in {[k \in 1..n |-> [name |-> "doc.pdf", type |-> "application/pdf"]] :
                    n \in 1..MaxBatch}
    /\ processing = FALSE /\ progress = 0 /\ step = ""
    /\ quotations = <<>> /\ error = Null
    /\ batch = <<>> /\ i = 0 /\ extractedText = "" /\ errorMsg = ""
    /\ storageRef = "" /\ record = NoRecord /\ pc = "idle"
    /\ db = <<>> /\ now = 0
    /\ fetching = [mount |-> 1, run |-> 0]
    /\ abandoned = 0
    /\ runs = 0 /\ attempted = 0 /\ steps = <<>> /\ hist = <<>>
    /\ lastFailure = NoFailure /\ rejected = FALSE

ProgressNext ==
    \/ HandleUpload
    \/ \E message \in Messages : UploadBytesReject(message)

ProgressSpec == ProgressInit /\ [][ProgressNext]_vars

\* ------------------------------------------------------------ the claims

\* The documents of the collection with a given id.
DocsWithId(id) == {j \in 1..Len(db) : db[j].id = id}

\* The document the insert of history entry h created.
DocOf(h) == db[CHOOSE j \in 1..Len(db) : db[j].id = h.rec].data

\* Storage put, URL resolution and insert were all fulfilled for h's file.
UploadOk(h) == h.put = "ok" /\ h.url = "ok" /\ h.ins = "ok"

\* One call of the upload step was rejected for h's file.
UploadBroke(h) == "failed" \in {h.put, h.url, h.ins}

Entries == {hist[k] : k \in 1..Len(hist)}

\* The entry of the file at index j of the current run, if it has one.
EntriesAt(j) == {h \in Entries : h.run = runs /\ h.idx = j}

\* C1: a file has a document in the collection exactly when storage put, URL
\* resolution and insert were all fulfilled for it, whatever its extraction did:
\* a failed upload step leaves no document, a failed extraction alone does not
\* prevent one, and every document of the collection is some file's.
C1_RecordIffUploadSucceeded ==
    /\ \A h \in Entries :
         /\ Cardinality(DocsWithId(h.rec)) = IF UploadOk(h) THEN 1 ELSE 0
         /\ UploadOk(h) => /\ DocOf(h).filename = h.file.name
                           /\ DocOf(h).type = h.file.type
    /\ \A j \in 1..Len(db) : \E h \in Entries : h.rec = db[j].id
    /\ \A k1, k2 \in 1..Len(hist) :
         (k1 # k2 /\ hist[k1].rec # 0) => hist[k1].rec # hist[k2].rec

\* A file whose extraction succeeded and upload failed has no document, beside a
\* file whose extraction failed and upload succeeded, which has one.
C1_Witness ==
    \E h1, h2 \in Entries :
        /\ h1.ext = "ok" /\ UploadBroke(h1) /\ DocsWithId(h1.rec) = {}
        /\ h2.ext = "failed" /\ UploadOk(h2) /\ DocsWithId(h2.rec) # {}

\* The reason the record must carry for a failed extraction.
FailureReason(h) ==
    IF h.timedOut # "" THEN "Extraction timed out"
    ELSE IF h.reason = "" THEN "Extraction failed" ELSE h.reason

\* C2: a file whose extraction failed (rejection or timeout) and whose upload
\* succeeded has exactly one document, with error set to the failure reason (or
\* "Extraction failed" when there is none) and an empty extractedText; and a
\* document has an error field only if its file's extraction failed.
C2_ExtractionErrorRecorded ==
    \A h \in Entries :
        UploadOk(h) =>
            /\ Cardinality(DocsWithId(h.rec)) = 1
            /\ ("error" \in DOMAIN DocOf(h)) <=> (h.ext = "failed")
            /\ h.ext = "failed" => /\ DocOf(h).error = FailureReason(h)
                                   /\ DocOf(h).extractedText = ""

\* A rejection without a message, recorded with the fallback reason.
C2_Witness ==
    \E h \in Entries :
        /\ h.ext = "failed" /\ h.timedOut = "" /\ h.reason = "" /\ UploadOk(h)
        /\ DocOf(h).error = "Extraction failed"
        /\ DocOf(h).extractedText = ""

\* The setStep calls of a whole run over n files.
ExpectedSteps(n) ==
    [k \in 1..(2 * n) |->
        IF k % 2 = 1 THEN <<"Extracting", (k - 1) \div 2>>
        ELSE <<"Uploading", (k - 2) \div 2>>]

\* The upload step of h's file has settled.
UploadSettled(h) == UploadBroke(h) \/ h.ins = "ok"

\* C3: a run enters the extraction step and then the upload step of every file
\* of its batch exactly once, in selection order, and has done so for all of
\* them when it ends, whatever failed; while file i is being handled the upload
\* step of every earlier file has settled.
C3_EveryFileOnceInOrder ==
    LET n == Len(batch)
    IN  /\ Len(steps) <= 2 * n
        /\ steps = SubSeq(ExpectedSteps(n), 1, Len(steps))
        /\ (runs > 0 /\ ~processing) => steps = ExpectedSteps(n)
        /\ processing =>
             /\ i < n
             /\ Len(steps) \in {2 * i + 1, 2 * i + 2}
             /\ \A j \in 0..(i - 1) :
                  \E h \in EntriesAt(j) : UploadSettled(h) /\ h.file = batch[j + 1]

\* A run of two files has ended although both steps of its first file failed.
C3_Witness ==
    /\ runs > 0 /\ ~processing /\ Len(batch) = 2
    /\ steps = ExpectedSteps(2)
    /\ \E h \in EntriesAt(0) : h.ext = "failed" /\ UploadBroke(h)
    /\ EntriesAt(1) # {}

\* C4: no failure of an external call of a run makes handleUpload's promise
\* reject: each is caught and shown in the error slot.
C4_NothingPropagates == ~rejected

\* C5 (as stated): every run that has started finishes its loop, whatever the
\* external calls do.
C5_RunAlwaysFinishes == processing ~> ~processing

\* C5 (amended): a run suspended on a call of the extraction step (OCR
\* recognition, byte read, document conversion, text decoding) always reaches the
\* upload step of that file: each of these calls is raced against the timer.
C5_ExtractionAlwaysEnds == (pc \in ExtractCalls) ~> (pc = "uploadBytes")

\* A timeout has moved the run from a hanging extraction call to the upload step.
C5_Witness ==
    /\ pc = "uploadBytes"
    /\ \E h \in EntriesAt(i) : h.timedOut # "" /\ h.put = "pending"

\* round(100 * (k + 1) / n) in exact arithmetic, halves up.
ExactRound(k, n) == (200 * (k + 1) + n) \div (2 * n)

\* C6: after file i of n has been processed the progress value is
\* round(100 * (i + 1) / n) exactly (i counts the files processed so far).
C6_ProgressExact ==
    batch # <<>> =>
        progress = IF i = 0 THEN 0 ELSE ExactRound(i - 1, Len(batch))

\* The text extractText returned for h's file.
ExtractedText(h) ==
    IF h.ext = "ok" THEN h.text
    ELSE IF h.ext = "failed" THEN ""
    ELSE IF h.file.type = "application/pdf" THEN PdfPlaceholder
    ELSE UnsupportedPlaceholder

\* The first n characters of t.
Prefix(t, n) == IF Len(t) <= n THEN t ELSE SubSeq(t, 1, n)

\* C7: every document's extractedText is at most 600 characters long and is the
\* first 600 characters of the text extracted from its file; a longer text is
\* truncated and its file still gets its document.
C7_SummaryTruncated ==
    \A h \in Entries :
        UploadOk(h) =>
            /\ DocsWithId(h.rec) # {}
            /\ Len(DocOf(h).extractedText) <= 600
            /\ DocOf(h).extractedText = Prefix(ExtractedText(h), 600)

\* A text of 608 characters, stored as its first 600.
C7_Witness ==
    \E h \in Entries :
        /\ h.ext = "ok" /\ Len(h.text) > 600 /\ UploadOk(h)
        /\ Len(DocOf(h).extractedText) = 600
        /\ DocOf(h).extractedText # h.text

\* The message the error slot shows for a failure.
FailureNotice(f) ==
    IF f.kind = "Extraction"
    THEN "Extraction failed: " \o f.name \o ": "
            \o (IF f.message = "" THEN "Extraction failed" ELSE f.message)
    ELSE "Upload failed: " \o f.name \o ": "
            \o (IF f.message = "" THEN "Upload failed" ELSE f.message)

\* C8: the error slot holds the notice of the latest extraction or upload failure
\* of the current run, and null while the run has had none (it is reset when a
\* run starts).
C8_LastErrorWins ==
    error = IF lastFailure.kind = "none" THEN Null ELSE FailureNotice(lastFailure)

\* In the second run, an upload failure has overwritten the notice of the same
\* file's extraction failure, and nothing is left of the first run's failure.
C8_Witness ==
    /\ runs = 2
    /\ \E h \in Entries : h.run = 1 /\ (h.ext = "failed" \/ UploadBroke(h))
    /\ \E h \in Entries : h.run = 2 /\ h.ext = "failed" /\ UploadBroke(h)
    /\ lastFailure.kind = "Upload"

\* C9: when the timer of a raced call fires first the extraction fails with
\* "Extraction timed out" and an empty text, and so does the file's document;
\* when the work settles first it decides; and the later settling of an
\* abandoned work changes nothing of the run or the collection.
C9_TimeoutDecidesRace ==
    /\ [](\A h \in Entries :
            /\ (h.run = runs /\ h.idx = i /\ pc \in UploadCalls /\ h.timedOut # "")
                  => errorMsg = "Extraction timed out" /\ extractedText = ""
            /\ (h.run = runs /\ h.idx = i /\ pc \in UploadCalls /\ h.ext = "ok")
                  => errorMsg = "" /\ extractedText = h.text
            /\ (UploadOk(h) /\ h.timedOut # "")
                  => /\ DocOf(h).error = "Extraction timed out"
                     /\ DocOf(h).extractedText = "")
    /\ [][abandoned' < abandoned =>
            UNCHANGED << files, processing, progress, step, quotations, error,
                         batch, i, extractedText, errorMsg, storageRef, record,
                         pc, db >>]_vars

\* A Word file whose conversion timed out has its document, and the abandoned
\* conversion has since settled.
C9_Witness ==
    /\ abandoned = 0
    /\ \E h \in Entries :
        /\ h.file.type = DocxType /\ h.timedOut = "extractRawText" /\ UploadOk(h)
        /\ DocOf(h).error = "Extraction timed out"
        /\ DocOf(h).extractedText = ""

\* C10 (as stated): the step that ends the loop clears the progress value, the
\* step label and the selection.
C10_ProgressCleared ==
    [][(processing /\ ~processing') =>
          (progress' = 0 /\ step' = "" /\ files' = <<>>)]_vars

\* C10 (amended): the step that ends the loop clears the processing flag, the
\* step label and the selection, leaves the progress value at 100, and then
\* calls fetchQuotations; a run's getDocs is called at no other time, and the
\* display list changes only when a getDocs is fulfilled.
C10_LoopEndClears ==
    /\ [][(processing /\ ~processing') =>
            /\ step' = "" /\ files' = <<>>
            /\ progress' = 100
            /\ fetching'.run = fetching.run + 1
            /\ quotations' = quotations]_vars
    /\ [][(fetching'.run > fetching.run) =>
            (processing /\ ~processing' /\ step' = "" /\ files' = <<>>)]_vars
    /\ [][(quotations' # quotations) =>
            (fetching'.run < fetching.run \/ fetching'.mount < fetching.mount)]_vars

\* A run with a failure has ended: flag, label and selection are cleared, the
\* progress value still reads 100 and the re-fetch is in flight.
C10_Witness ==
    /\ runs > 0 /\ ~processing /\ pc = "idle"
    /\ lastFailure.kind # "none"
    /\ files = <<>> /\ step = "" /\ progress = 100
    /\ fetching.run > 0

====
